---- MODULE Spec2Model ----
(***************************************************************************)
(* whisptube (src/whisptube.py): a playlist downloader (download_playlist) *)
(* followed by a transcriber (transcribe_videos), with format_timestamp as *)
(* the only pure formatting function.  Texts and file names are sequences  *)
(* of one-character (or one-token) strings so that formatting, stripping,  *)
(* globbing and the text-mode write/read round trip are computed.          *)
(***************************************************************************)
EXTENDS Integers, Sequences, FiniteSets, TLC

VARIABLES
  \* ---- format_timestamp harness
  seconds, stamp,
  \* ---- download_playlist
  dir, videos, dl_run, dl_pc, dl_idx, video_paths,
  \* ---- download_playlist: the history the properties read
  recorded_idx, invoked, dl_outcome, dl_prev,
  \* ---- transcribe_videos
  files, tr_video_paths, run, pc, idx,
  all_text_with_timestamps, all_text_without_timestamps, all_text_segmented,
  transcription_paths,
  \* ---- transcribe_videos: the log and the history the properties read
  model_calls, errors, contrib, seg_yield, cached, handled, prev

fmtVars == <<seconds, stamp>>
dlVars == <<dir, videos, dl_run, dl_pc, dl_idx, video_paths,
            recorded_idx, invoked, dl_outcome, dl_prev>>
trVars == <<files, tr_video_paths, run, pc, idx,
            all_text_with_timestamps, all_text_without_timestamps,
            all_text_segmented, transcription_paths,
            model_calls, errors, contrib, seg_yield, cached, handled, prev>>
vars == <<fmtVars, dlVars, trVars>>

(***************************************************************************)
(* Bounds of the model.                                                    *)
(***************************************************************************)
MaxSeconds == 130
MaxVideos == 2
MaxRuns == 2
MaxManifest == 3
MaxInitFiles == 1
MaxDlRuns == 2

(***************************************************************************)
(* Characters and generic sequence helpers.                                *)
(***************************************************************************)
LF == "\n"
CR == "\r"
SP == " "
Whitespace == {SP, LF, CR}

Range(s) == {s[i] : i \in 1..Len(s)}

RECURSIVE Flatten(_)
Flatten(ss) == IF ss = <<>> THEN <<>> ELSE Head(ss) \o Flatten(Tail(ss))

(***************************************************************************)
(* format_timestamp, lines 124-137.                                        *)
(***************************************************************************)
DigitChars == <<"0", "1", "2", "3", "4", "5", "6", "7", "8", "9">>

RECURSIVE Decimal(_)
Decimal(n) == IF n < 10 THEN <<DigitChars[n + 1]>>
              ELSE Decimal(n \div 10) \o <<DigitChars[(n % 10) + 1]>>

\* the format spec ":02d": decimal, zero-padded on the left to at least 2
Format02d(n) == IF n < 10 THEN <<"0">> \o Decimal(n) ELSE Decimal(n)

\* a plausible slip: minutes taken from the whole value, not the remainder
format_timestamp_MinutesNotReduced(secs_in) ==
  Format02d(secs_in \div 3600) \o <<":">> \o Format02d(secs_in \div 60)
    \o <<":">> \o Format02d(secs_in % 60)

\* int() truncates; on the non-negative values modelled truncation is \div
format_timestamp(secs_in) ==
  LET hours == secs_in \div 3600
      minutes == (secs_in % 3600) \div 60
      secs == secs_in % 60
  IN Format02d(hours) \o <<":">> \o Format02d(minutes) \o <<":">> \o Format02d(secs)

\* the inputs of the harness: every small value, and the hour/day boundaries
FmtSeconds == (0..MaxSeconds) \cup
              {3599, 3600, 3601, 3661, 7199, 7200, 35999, 36000, 86399, 86400,
               86461, 359999, 360000, 360001, 363661}

(***************************************************************************)
(* Text-mode file I/O, open(..., 'w'/'r', encoding='utf-8').               *)
(***************************************************************************)
\* The file system is a map from the paths that exist to their contents.
Exists(fs, path) == path \in DOMAIN fs

\* os.linesep of the platform the script runs on (POSIX)
LineSep == <<LF>>

\* text-mode write (newline=None): every "\n" becomes os.linesep
RECURSIVE WriteText(_)
WriteText(t) ==
  IF t = <<>> THEN <<>>
  ELSE (IF Head(t) = LF THEN LineSep ELSE <<Head(t)>>) \o WriteText(Tail(t))

\* text-mode read (newline=None), universal newlines: "\r\n" and a lone
\* "\r" both come back as "\n"
RECURSIVE ReadText(_)
ReadText(b) ==
  IF b = <<>> THEN <<>>
  ELSE IF Head(b) = CR
       THEN <<LF>> \o ReadText(IF Len(b) >= 2 /\ b[2] = LF
                               THEN Tail(Tail(b)) ELSE Tail(b))
       ELSE <<Head(b)>> \o ReadText(Tail(b))

\* a read that invents empty content for a missing file instead of failing
ReadFile_Fabricate(fs, path) ==
  IF Exists(fs, path) THEN [ok |-> TRUE, text |-> ReadText(fs[path])]
  ELSE [ok |-> TRUE, text |-> <<>>]

\* with open(path, 'r') as f: f.read() -- FileNotFoundError when missing
ReadFile(fs, path) ==
  IF Exists(fs, path) THEN [ok |-> TRUE, text |-> ReadText(fs[path])]
  ELSE [ok |-> FALSE, text |-> <<>>]

\* with open(path, 'w') as f: f.write(text) -- creates or overwrites
WriteFile(fs, path, text) ==
  [q \in DOMAIN fs \cup {path} |-> IF q = path THEN WriteText(text) ELSE fs[q]]

(***************************************************************************)
(* str.strip() and the per-segment lines, lines 231-235.                   *)
(***************************************************************************)
RECURSIVE LStrip(_)
LStrip(t) == IF t /= <<>> /\ Head(t) \in Whitespace THEN LStrip(Tail(t)) ELSE t

RECURSIVE RStrip(_)
RStrip(t) == IF t /= <<>> /\ t[Len(t)] \in Whitespace
             THEN RStrip(SubSeq(t, 1, Len(t) - 1)) ELSE t

Strip(t) == RStrip(LStrip(t))

\* f"[{start_time}] {segment['text'].strip()}\n"
TimestampedLine(segment) ==
  <<"[">> \o format_timestamp(segment.start) \o <<"]", SP>>
    \o Strip(segment.text) \o <<LF>>

\* f"{segment['text'].strip()}\n"
SegmentedLine(segment) == Strip(segment.text) \o <<LF>>

TextWithTimestamps(result) ==
  Flatten([i \in 1..Len(result.segments) |-> TimestampedLine(result.segments[i])])

TextSegmented(result) ==
  Flatten([i \in 1..Len(result.segments) |-> SegmentedLine(result.segments[i])])

(***************************************************************************)
(* What model.transcribe may return: a full text and its segments.         *)
(***************************************************************************)
ResultTwoSegments ==
  [text |-> <<SP, "a", SP, "b">>,
   segments |-> << [start |-> 0, text |-> <<SP, "a">>],
                   [start |-> 3661, text |-> <<SP, "b", SP>>] >>]

ResultWithCarriageReturn ==
  [text |-> <<SP, "c", CR, "d">>,
   segments |-> << [start |-> 61, text |-> <<SP, "c", CR, "d">>] >>]

Results == {ResultTwoSegments, ResultWithCarriageReturn}

(***************************************************************************)
(* transcribe_videos, lines 139-276: paths and the per-item files.         *)
(***************************************************************************)
\* the media files a run may be given: <<stem, extension>>
VideoPaths == {<<"a", "mp4">>, <<"b", "mp4">>}

\* os.path.splitext(os.path.basename(video_path))[0]
VideoName(video_path) == video_path[1]

\* the three per-item files in transcription_dir, lines 199-201
OutputFile(video_name) == <<video_name, ".txt">>
OutputFileNoTimestamps(video_name) == <<video_name, "_no_timestamps.txt">>
OutputFileSegmented(video_name) == <<video_name, "_segmented.txt">>

ItemFiles(video_name) ==
  {OutputFile(video_name), OutputFileNoTimestamps(video_name),
   OutputFileSegmented(video_name)}

\* the three combined files in transcription_dir, lines 263-271
CombinedFile == <<"combined_transcription_with_timestamps", ".txt">>
CombinedFileNoTimestamps == <<"combined_transcription", ".txt">>
CombinedFileSegmented == <<"combined_transcription", "_segmented.txt">>

\* a completion test that looks at the wrong sibling
AlreadyTranscribed_WrongSibling(fs, video_name) ==
  Exists(fs, OutputFile(video_name))
    /\ Exists(fs, OutputFileNoTimestamps(video_name))

\* os.path.exists(output_file) and os.path.exists(output_file_segmented)
AlreadyTranscribed(fs, video_name) ==
  Exists(fs, OutputFile(video_name))
    /\ Exists(fs, OutputFileSegmented(video_name))

\* a combined buffer that forgets the blank-line separator
AppendCombined_NoSeparator(buffer, text) == buffer \o text

\* all_text_xxx += text + "\n\n"
AppendCombined(buffer, text) == buffer \o text \o <<LF, LF>>


(***************************************************************************)
(* transcribe_videos: state at entry, and the loop of lines 194-260.       *)
(***************************************************************************)
\* every non-empty list of at most MaxVideos media files
VideoLists == UNION {[1..n -> VideoPaths] : n \in 1..MaxVideos}

\* what an earlier (possibly interrupted) run may have left for one item:
\* any subset of its three files, holding the rendering of some result
LeftBy(video_name, result, present) ==
  [q \in present |->
     WriteText(IF q = OutputFile(video_name) THEN TextWithTimestamps(result)
               ELSE IF q = OutputFileNoTimestamps(video_name) THEN result.text
               ELSE TextSegmented(result))]

\* the union of two file maps with disjoint domains
Merge(f, g) == [q \in DOMAIN f \cup DOMAIN g |-> IF q \in DOMAIN f THEN f[q] ELSE g[q]]

\* the files found at entry: leftovers of one earlier result, for the items
\* of the list only (files of other media are never looked at)
InitialFiles(video_list) ==
  LET names == {VideoName(video_list[i]) : i \in 1..Len(video_list)}
      fa(r) == {LeftBy("a", r, present) :
                  present \in IF "a" \in names THEN SUBSET ItemFiles("a") ELSE {{}}}
      fb(r) == {LeftBy("b", r, present) :
                  present \in IF "b" \in names THEN SUBSET ItemFiles("b") ELSE {{}}}
  IN UNION {{Merge(x, y) : x \in fa(r), y \in fb(r)} : r \in Results}

NoPrev == [valid |-> FALSE, handled |-> {}, files |-> <<>>]

\* lines 170-173: the locals a run starts from
TrLocalsReset ==
  /\ pc' = "loop"
  /\ idx' = 1
  /\ all_text_with_timestamps' = <<>>
  /\ all_text_without_timestamps' = <<>>
  /\ all_text_segmented' = <<>>
  /\ transcription_paths' = <<>>
  /\ model_calls' = {}
  /\ errors' = <<>>
  /\ contrib' = [b \in {"with_timestamps", "without_timestamps", "segmented"} |-> <<>>]
  /\ seg_yield' = <<>>
  /\ cached' = {}
  /\ handled' = <<>>

TrInit ==
  /\ tr_video_paths \in VideoLists
  /\ files \in InitialFiles(tr_video_paths)
  /\ run = 1
  /\ pc = "loop"
  /\ idx = 1
  /\ all_text_with_timestamps = <<>>
  /\ all_text_without_timestamps = <<>>
  /\ all_text_segmented = <<>>
  /\ transcription_paths = <<>>
  /\ model_calls = {}
  /\ errors = <<>>
  /\ contrib = [b \in {"with_timestamps", "without_timestamps", "segmented"} |-> <<>>]
  /\ seg_yield = <<>>
  /\ cached = {}
  /\ handled = <<>>
  /\ prev = NoPrev

TrIdle ==
  /\ files = <<>>
  /\ tr_video_paths = <<>>
  /\ run = 0
  /\ pc = "idle"
  /\ idx = 0
  /\ all_text_with_timestamps = <<>>
  /\ all_text_without_timestamps = <<>>
  /\ all_text_segmented = <<>>
  /\ transcription_paths = <<>>
  /\ model_calls = {}
  /\ errors = <<>>
  /\ contrib = <<>>
  /\ seg_yield = <<>>
  /\ cached = {}
  /\ handled = <<>>
  /\ prev = NoPrev

InLoop == pc = "loop" /\ idx \in 1..Len(tr_video_paths)
CurrentName == VideoName(tr_video_paths[idx])

\* except Exception as e: logger.error(...) -- lines 257-260
LogError(kind) == errors' = Append(errors, [idx |-> idx, kind |-> kind])

\* lines 204-216: both marker files exist, the three files are read in
\* turn, each read followed at once by its append; the first read that
\* fails leaves the try block
LoadExisting ==
  /\ InLoop
  /\ AlreadyTranscribed(files, CurrentName)
  /\ LET r1 == ReadFile(files, OutputFile(CurrentName))
         r2 == ReadFile(files, OutputFileNoTimestamps(CurrentName))
         r3 == ReadFile(files, OutputFileSegmented(CurrentName))
         ok1 == r1.ok
         ok2 == ok1 /\ r2.ok
         ok3 == ok2 /\ r3.ok
     IN /\ all_text_with_timestamps' =
             IF ok1 THEN AppendCombined(all_text_with_timestamps, r1.text)
             ELSE all_text_with_timestamps
        /\ all_text_without_timestamps' =
             IF ok2 THEN AppendCombined(all_text_without_timestamps, r2.text)
             ELSE all_text_without_timestamps
        /\ all_text_segmented' =
             IF ok3 THEN AppendCombined(all_text_segmented, r3.text)
             ELSE all_text_segmented
        /\ contrib' =
             [contrib EXCEPT
                !["with_timestamps"] = IF ok1 THEN Append(@, idx) ELSE @,
                !["without_timestamps"] = IF ok2 THEN Append(@, idx) ELSE @,
                !["segmented"] = IF ok3 THEN Append(@, idx) ELSE @]
        /\ transcription_paths' =
             IF ok3 THEN Append(transcription_paths, OutputFile(CurrentName))
             ELSE transcription_paths
        /\ handled' = IF ok3 THEN Append(handled, idx) ELSE handled
        /\ seg_yield' = IF ok3 THEN Append(seg_yield, r3.text) ELSE seg_yield
        /\ IF ok3 THEN errors' = errors ELSE LogError("FileNotFoundError")
  /\ cached' = cached \cup {idx}
  /\ idx' = idx + 1
  /\ UNCHANGED <<files, tr_video_paths, run, pc, model_calls, prev>>

\* line 221 raises: nothing was written or appended
TranscribeRaises ==
  /\ InLoop
  /\ ~AlreadyTranscribed(files, CurrentName)
  /\ model_calls' = model_calls \cup {idx}
  /\ LogError("TranscribeError")
  /\ idx' = idx + 1
  /\ UNCHANGED <<files, tr_video_paths, run, pc, all_text_with_timestamps,
                 all_text_without_timestamps, all_text_segmented,
                 transcription_paths, contrib, seg_yield, cached, handled, prev>>

\* lines 221-255: the model answers, the three files are written, the
\* three buffers grow and the timestamped path is recorded
TranscribeAndSave ==
  /\ InLoop
  /\ ~AlreadyTranscribed(files, CurrentName)
  /\ \E result \in Results :
       LET transcription_text == result.text
           text_with_timestamps == TextWithTimestamps(result)
           text_segmented == TextSegmented(result)
           fs1 == WriteFile(files, OutputFile(CurrentName), text_with_timestamps)
           fs2 == WriteFile(fs1, OutputFileNoTimestamps(CurrentName), transcription_text)
           fs3 == WriteFile(fs2, OutputFileSegmented(CurrentName), text_segmented)
       IN /\ files' = fs3
          /\ all_text_with_timestamps' =
               AppendCombined(all_text_with_timestamps, text_with_timestamps)
          /\ all_text_without_timestamps' =
               AppendCombined(all_text_without_timestamps, transcription_text)
          /\ all_text_segmented' = AppendCombined(all_text_segmented, text_segmented)
          /\ seg_yield' = Append(seg_yield, text_segmented)
  /\ contrib' = [b \in DOMAIN contrib |-> Append(contrib[b], idx)]
  /\ transcription_paths' = Append(transcription_paths, OutputFile(CurrentName))
  /\ handled' = Append(handled, idx)
  /\ model_calls' = model_calls \cup {idx}
  /\ idx' = idx + 1
  /\ UNCHANGED <<tr_video_paths, run, pc, errors, cached, prev>>

\* lines 238-247 with the k-th open(..., 'w') failing (OSError): the earlier
\* files are written, the failing one and the later ones are left as they
\* were; nothing is appended
TranscribeSaveFails ==
  /\ InLoop
  /\ ~AlreadyTranscribed(files, CurrentName)
  /\ \E result \in Results, k \in 1..3 :
       LET targets == <<OutputFile(CurrentName),
                        OutputFileNoTimestamps(CurrentName),
                        OutputFileSegmented(CurrentName)>>
           texts == <<TextWithTimestamps(result), result.text, TextSegmented(result)>>
           fs1 == IF k > 1 THEN WriteFile(files, targets[1], texts[1]) ELSE files
           fs2 == IF k > 2 THEN WriteFile(fs1, targets[2], texts[2]) ELSE fs1
       IN files' = fs2
  /\ model_calls' = model_calls \cup {idx}
  /\ LogError("OSError")
  /\ idx' = idx + 1
  /\ UNCHANGED <<tr_video_paths, run, pc, all_text_with_timestamps,
                 all_text_without_timestamps, all_text_segmented,
                 transcription_paths, contrib, seg_yield, cached, handled, prev>>

\* lines 262-276: the three combined files are written and the run returns
WriteCombined ==
  /\ pc = "loop"
  /\ idx = Len(tr_video_paths) + 1
  /\ files' = WriteFile(
                WriteFile(
                  WriteFile(files, CombinedFile, all_text_with_timestamps),
                  CombinedFileNoTimestamps, all_text_without_timestamps),
                CombinedFileSegmented, all_text_segmented)
  /\ pc' = "done"
  /\ UNCHANGED <<tr_video_paths, run, idx, all_text_with_timestamps,
                 all_text_without_timestamps, all_text_segmented,
                 transcription_paths, model_calls, errors, contrib, seg_yield,
                 cached, handled, prev>>

\* transcribe_videos is called again on the same list and the same files
RunAgain ==
  /\ pc = "done"
  /\ run < MaxRuns
  /\ run' = run + 1
  /\ prev' = [valid |-> TRUE, handled |-> Range(handled), files |-> files]
  /\ TrLocalsReset
  /\ UNCHANGED <<files, tr_video_paths>>

(***************************************************************************)
(* download_playlist, lines 17-122.  File names are token sequences:       *)
(* <<"A", ".", "mp4">> is A.mp4.                                           *)
(***************************************************************************)
\* the records a manifest may hold: video.get('id'), video.get('title')
ItemP == [id |-> "p", title |-> <<"A">>]
ItemQ == [id |-> "q", title |-> <<"B", "q">>]
Items == {ItemP, ItemQ}
Exts == {"mp4", "webm"}

\* the extension "yt-dlp --print filename" resolves %(ext)s to for an item
\* (that of the format picked without -f): the downloader's own answer,
\* the same every time it is asked about the same item
ResolvedExt(item) == IF item.id = "p" THEN "mp4" ELSE "webm"

\* every non-empty manifest of at most MaxManifest records
Manifests == UNION {[1..n -> Items] : n \in 1..MaxManifest}

\* output_template "%(title)s.%(ext)s" resolved with an extension
TemplateName(item, ext) == item.title \o <<".", ext>>

\* files that may lie in output_dir before the first run
DirUniverse ==
  UNION {{TemplateName(it, "mp4"), TemplateName(it, "webm"),
          <<"X", it.id, ".", "mp4">>, <<".", it.id, ".", "mp4">>} : it \in Items}

InitialDirs == {d \in SUBSET DirUniverse : Cardinality(d) <= MaxInitFiles}

EndsWithMp4(name) ==
  Len(name) >= 2 /\ name[Len(name) - 1] = "." /\ name[Len(name)] = "mp4"

\* glob.glob(os.path.join(output_dir, f"*{video_id}*.mp4")) on one name:
\* the pattern starts with "*", so glob drops names that start with "."
GlobMatch(name, video_id) ==
  /\ name[1] /= "."
  /\ EndsWithMp4(name)
  /\ \E j \in 1..(Len(name) - 2) : name[j] = video_id

ExistingFiles(d, video_id) == {f \in d : GlobMatch(f, video_id)}

\* a skip test that forgets the expected filename
AlreadyDownloaded_GlobOnly(d, expected_filename, video_id) ==
  ExistingFiles(d, video_id) /= {}

\* os.path.exists(expected_filename) or existing_files -- line 79
AlreadyDownloaded(d, expected_filename, video_id) ==
  expected_filename \in d \/ ExistingFiles(d, video_id) /= {}

\* an error handler that gives up on the rest of the playlist
AfterError_Abort(i, n) == n + 1

\* except ...: logger.error(...) -- the for loop goes on with the next item
AfterError(i, n) == i + 1

\* the path recorded for an item that is on disk: lines 83-86 and 107-113
RecordedPaths(d, expected_filename, video_id) ==
  IF expected_filename \in d THEN {expected_filename}
  ELSE ExistingFiles(d, video_id)

DlInLoop == dl_pc = "loop" /\ dl_idx \in 1..Len(videos)
CurrentItem == videos[dl_idx]
\* what "yt-dlp --print filename" answers for the current item
ExpectedFilename == TemplateName(CurrentItem, ResolvedExt(CurrentItem))

DlLocalsReset ==
  /\ dl_pc' = "loop"
  /\ dl_idx' = 1
  /\ video_paths' = <<>>
  /\ recorded_idx' = <<>>
  /\ invoked' = {}
  /\ dl_outcome' = <<>>

DlNoPrev == [valid |-> FALSE, recorded |-> {}, downloaded |-> {}]

DlInit ==
  /\ videos \in Manifests
  /\ dir \in InitialDirs
  /\ dl_run = 1
  /\ dl_pc = "loop"
  /\ dl_idx = 1
  /\ video_paths = <<>>
  /\ recorded_idx = <<>>
  /\ invoked = {}
  /\ dl_outcome = <<>>
  /\ dl_prev = DlNoPrev

DlIdle ==
  /\ videos = <<>>
  /\ dir = {}
  /\ dl_run = 0
  /\ dl_pc = "idle"
  /\ dl_idx = 0
  /\ video_paths = <<>>
  /\ recorded_idx = <<>>
  /\ invoked = {}
  /\ dl_outcome = <<>>
  /\ dl_prev = DlNoPrev

NoFile == <<>>

\* lines 71-74 exit non-zero: CalledProcessError, caught at line 115
ResolveFails ==
  /\ DlInLoop
  /\ dl_outcome' = Append(dl_outcome, [kind |-> "resolve_failed", produced |-> NoFile])
  /\ dl_idx' = AfterError(dl_idx, Len(videos))
  /\ UNCHANGED <<dir, videos, dl_run, dl_pc, video_paths,
                 recorded_idx, invoked, dl_prev>>

\* lines 79-87: the file is there, its path is recorded, no download
SkipExisting ==
  /\ DlInLoop
  /\ AlreadyDownloaded(dir, ExpectedFilename, CurrentItem.id)
  /\ \E path \in RecordedPaths(dir, ExpectedFilename, CurrentItem.id) :
       video_paths' = Append(video_paths, path)
  /\ recorded_idx' = Append(recorded_idx, dl_idx)
  /\ dl_outcome' = Append(dl_outcome, [kind |-> "existing", produced |-> NoFile])
  /\ dl_idx' = dl_idx + 1
  /\ UNCHANGED <<dir, videos, dl_run, dl_pc, invoked, dl_prev>>

\* line 102 exits non-zero: CalledProcessError, caught at line 115
DownloadFails ==
  /\ DlInLoop
  /\ ~AlreadyDownloaded(dir, ExpectedFilename, CurrentItem.id)
  /\ invoked' = invoked \cup {dl_idx}
  /\ dl_outcome' = Append(dl_outcome, [kind |-> "download_failed", produced |-> NoFile])
  /\ dl_idx' = AfterError(dl_idx, Len(videos))
  /\ UNCHANGED <<dir, videos, dl_run, dl_pc, video_paths,
                 recorded_idx, dl_prev>>

\* lines 102-113: the download writes title.<ext>; the path is recorded when
\* the expected filename or an id-glob match is found, else the item is
\* left out of the result
Download ==
  /\ DlInLoop
  /\ ~AlreadyDownloaded(dir, ExpectedFilename, CurrentItem.id)
  /\ invoked' = invoked \cup {dl_idx}
  /\ \E ext \in Exts :
       LET produced == TemplateName(CurrentItem, ext)
           d == dir \cup {produced}
           found == RecordedPaths(d, ExpectedFilename, CurrentItem.id)
       IN /\ dir' = d
          /\ dl_outcome' = Append(dl_outcome, [kind |-> "download_ok", produced |-> produced])
          /\ IF found = {}
             THEN UNCHANGED <<video_paths, recorded_idx>>
             ELSE /\ \E path \in found : video_paths' = Append(video_paths, path)
                  /\ recorded_idx' = Append(recorded_idx, dl_idx)
  /\ dl_idx' = dl_idx + 1
  /\ UNCHANGED <<videos, dl_run, dl_pc, dl_prev>>

\* lines 121-122: return video_paths
DlReturn ==
  /\ dl_pc = "loop"
  /\ dl_idx > Len(videos)
  /\ dl_pc' = "done"
  /\ UNCHANGED <<dir, videos, dl_run, dl_idx, video_paths,
                 recorded_idx, invoked, dl_outcome, dl_prev>>

\* download_playlist is called again: same manifest, same directory
DlRunAgain ==
  /\ dl_pc = "done"
  /\ dl_run < MaxDlRuns
  /\ dl_run' = dl_run + 1
  /\ dl_prev' = [valid |-> TRUE, recorded |-> Range(recorded_idx),
                 downloaded |-> {i \in 1..Len(dl_outcome) :
                                   dl_outcome[i].kind = "download_ok"}]
  /\ DlLocalsReset
  /\ UNCHANGED <<dir, videos>>

(***************************************************************************)
(* The harness of format_timestamp: one input, formatted once.             *)
(***************************************************************************)
FmtIdle == seconds = 0 /\ stamp = <<>>

FmtInit == seconds \in FmtSeconds /\ stamp = <<>>

Format ==
  /\ stamp = <<>>
  /\ stamp' = format_timestamp(seconds)
  /\ UNCHANGED <<seconds, dlVars, trVars>>

(***************************************************************************)
(* Specifications: the transcriber (Spec), the downloader (SpecDl) and the *)
(* formatter (SpecFmt), each run on its own.                               *)
(***************************************************************************)
Init == TrInit /\ DlIdle /\ FmtIdle

Next ==
  \/ LoadExisting /\ UNCHANGED <<fmtVars, dlVars>>
  \/ TranscribeRaises /\ UNCHANGED <<fmtVars, dlVars>>
  \/ TranscribeAndSave /\ UNCHANGED <<fmtVars, dlVars>>
  \/ TranscribeSaveFails /\ UNCHANGED <<fmtVars, dlVars>>
  \/ WriteCombined /\ UNCHANGED <<fmtVars, dlVars>>
  \/ RunAgain /\ UNCHANGED <<fmtVars, dlVars>>

Spec == Init /\ [][Next]_vars

DlNext ==
  \/ ResolveFails /\ UNCHANGED <<fmtVars, trVars>>
  \/ SkipExisting /\ UNCHANGED <<fmtVars, trVars>>
  \/ DownloadFails /\ UNCHANGED <<fmtVars, trVars>>
  \/ Download /\ UNCHANGED <<fmtVars, trVars>>
  \/ DlReturn /\ UNCHANGED <<fmtVars, trVars>>
  \/ DlRunAgain /\ UNCHANGED <<fmtVars, trVars>>

InitDl == DlInit /\ TrIdle /\ FmtIdle

SpecDl == InitDl /\ [][DlNext]_vars

InitFmt == FmtInit /\ DlIdle /\ TrIdle

SpecFmt == InitFmt /\ [][Format]_vars

(***************************************************************************)
(* Properties of transcribe_videos.                                        *)
(***************************************************************************)
PerItemPaths == UNION {ItemFiles(VideoName(p)) : p \in VideoPaths}
CombinedPaths == {CombinedFile, CombinedFileNoTimestamps, CombinedFileSegmented}

\* both marker files of the item now processed exist
MarkersExist ==
  /\ OutputFile(CurrentName) \in DOMAIN files
  /\ OutputFileSegmented(CurrentName) \in DOMAIN files

SameFile(fs1, fs2, q) ==
  /\ (q \in DOMAIN fs1) = (q \in DOMAIN fs2)
  /\ q \in DOMAIN fs1 => fs1[q] = fs2[q]

\* C4 (as claimed): in a run that follows another, every item the earlier
\* run produced or loaded is served from cache (no model call, its three
\* files unchanged), and when the earlier run handled every item the three
\* combined files come out byte-identical to the earlier ones.
C4_AssemblerIdempotent ==
  prev.valid =>
    /\ model_calls \cap prev.handled = {}
    /\ \A i \in prev.handled :
         \A q \in ItemFiles(VideoName(tr_video_paths[i])) :
           q \in DOMAIN files /\ SameFile(files, prev.files, q)
    /\ (pc = "done" /\ prev.handled = 1..Len(tr_video_paths)) =>
         \A c \in CombinedPaths : files[c] = prev.files[c]

\* the part of C4 that the code keeps: cached, not regenerated, per-item
\* files unchanged
C4_CachePart ==
  prev.valid =>
    /\ model_calls \cap prev.handled = {}
    /\ \A i \in prev.handled :
         /\ i < idx => i \in cached
         /\ \A q \in ItemFiles(VideoName(tr_video_paths[i])) :
              q \in DOMAIN files /\ SameFile(files, prev.files, q)

\* C5: when the timestamped and segmented files of the item being processed
\* exist and its plain-text file is missing, the step raises the missing-file
\* error for that item (logged by the handler): the model is not called, no
\* file is created or changed, nothing is added to the plain-text buffer and
\* the item gets no entry in the returned paths.
C5_MissingPlainIsAnError ==
  [][(InLoop /\ MarkersExist
        /\ OutputFileNoTimestamps(CurrentName) \notin DOMAIN files)
     => /\ errors' = Append(errors, [idx |-> idx, kind |-> "FileNotFoundError"])
        /\ model_calls' = model_calls
        /\ files' = files
        /\ all_text_without_timestamps' = all_text_without_timestamps
        /\ transcription_paths' = transcription_paths
        /\ idx' = idx + 1]_vars

\* C5 witness: the missing-file error has been raised and logged for an item
\* whose markers exist and whose plain-text file is still missing
C5_Witness ==
  \E j \in 1..Len(errors) :
    /\ errors[j].kind = "FileNotFoundError"
    /\ LET n == VideoName(tr_video_paths[errors[j].idx])
       IN /\ OutputFile(n) \in DOMAIN files
          /\ OutputFileSegmented(n) \in DOMAIN files
          /\ OutputFileNoTimestamps(n) \notin DOMAIN files

RECURSIVE JoinWithBlankLines(_)
JoinWithBlankLines(texts) ==
  IF texts = <<>> THEN <<>>
  ELSE Head(texts) \o <<LF, LF>> \o JoinWithBlankLines(Tail(texts))

C8_FailureIsolation ==
  /\ \A j \in 1..Len(errors) :
       /\ \A b \in DOMAIN contrib : errors[j].idx \notin Range(contrib[b])
       /\ errors[j].idx \notin Range(handled)
  /\ transcription_paths =
       [j \in 1..Len(handled) |-> OutputFile(VideoName(tr_video_paths[handled[j]]))]
  /\ \A j \in 1..Len(handled) - 1 : handled[j] < handled[j + 1]
  /\ pc = "done" =>
       Range(handled) \cup {errors[j].idx : j \in 1..Len(errors)}
         = 1..Len(tr_video_paths)

\* the part of C8 that the code keeps: everything but the timestamped buffer
C8_KeptPart ==
  /\ \A j \in 1..Len(errors) :
       /\ errors[j].idx \notin Range(contrib["segmented"])
       /\ errors[j].idx \notin Range(handled)
  /\ transcription_paths =
       [j \in 1..Len(handled) |-> OutputFile(VideoName(tr_video_paths[handled[j]]))]
  /\ \A j \in 1..Len(handled) - 1 : handled[j] < handled[j + 1]
  /\ pc = "done" =>
       Range(handled) \cup {errors[j].idx : j \in 1..Len(errors)}
         = 1..Len(tr_video_paths)

\* C9 (as claimed): a per-item transcript file that exists is never changed
\* or removed by any later step.
C9_WriteOnce ==
  [][\A q \in PerItemPaths \cap DOMAIN files :
       q \in DOMAIN files' /\ files'[q] = files[q]]_vars

\* C9 (amended): a step that processes an item whose timestamped and
\* segmented files both exist leaves every per-item transcript file as it
\* is, a missing plain-text file included.
C9_CompleteItemUntouched ==
  [][(InLoop /\ MarkersExist)
     => \A q \in PerItemPaths : SameFile(files', files, q)]_vars

\* C9 witness: an item whose two marker files existed has been processed
\* from cache
C9_Witness ==
  /\ cached /= {}
  /\ \A i \in cached :
       /\ OutputFile(VideoName(tr_video_paths[i])) \in DOMAIN files
       /\ OutputFileSegmented(VideoName(tr_video_paths[i])) \in DOMAIN files

\* C10 (as claimed): the three combined buffers hold contributions of the
\* same items in the same order, and these are the items of the returned
\* sequence.
C10_BuffersAligned ==
  /\ contrib["with_timestamps"] = handled
  /\ contrib["without_timestamps"] = handled
  /\ contrib["segmented"] = handled

(***************************************************************************)
(* Properties of download_playlist.                                        *)
(***************************************************************************)
\* the claim's own words: a file whose name contains the id and ends in the
\* media extension
NameHasIdAndMp4(name, video_id) ==
  EndsWithMp4(name) /\ \E j \in 1..Len(name) : name[j] = video_id

\* C1 (as claimed): when the directory holds a file whose name contains the
\* current item's id and ends in .mp4, or the expected filename exists, the
\* step that processes the item does not invoke the download.
C1_SkipDetection ==
  [][(DlInLoop
        /\ (ExpectedFilename \in dir
              \/ \E f \in dir : NameHasIdAndMp4(f, CurrentItem.id)))
     => invoked' = invoked]_vars

\* the part of C1 that the code keeps: the same, for file names that do not
\* start with a dot
C1_VisibleFilesOnly ==
  [][(DlInLoop
        /\ (ExpectedFilename \in dir
              \/ \E f \in dir : f[1] /= "." /\ NameHasIdAndMp4(f, CurrentItem.id)))
     => invoked' = invoked]_vars

RECURSIVE Ascending(_)
Ascending(S) ==
  IF S = {} THEN <<>>
  ELSE LET m == CHOOSE x \in S : \A y \in S : x <= y
       IN <<m>> \o Ascending(S \ {m})

\* the path belongs to the item: its expected filename or an id-glob match
PathOfItem(path, item) ==
  path = TemplateName(item, ResolvedExt(item)) \/ GlobMatch(path, item.id)

\* C3 (as claimed): the run ends without raising, having processed every
\* item, and returns the paths of exactly the items whose download
\* invocation did not fail, in manifest order.
C3_OnlyFailedDownloadsDropped ==
  dl_pc = "done" =>
    /\ Len(dl_outcome) = Len(videos)
    /\ recorded_idx =
         Ascending({i \in 1..Len(dl_outcome) : dl_outcome[i].kind /= "download_failed"})
    /\ Len(video_paths) = Len(recorded_idx)

\* the item was found on disk: before any download, or after a successful
\* one under the expected filename or an id-glob match
FoundOnDisk(i) ==
  \/ dl_outcome[i].kind = "existing"
  \/ /\ dl_outcome[i].kind = "download_ok"
     /\ PathOfItem(dl_outcome[i].produced, videos[i])

\* C3 (amended): the run ends without raising, having processed every
\* item, and returns, in manifest order, a path of exactly the items found
\* on disk: items whose download failed, whose filename resolution failed,
\* or whose downloaded file is found under neither name are left out.
C3_FoundItemsReturned ==
  dl_pc = "done" =>
    /\ Len(dl_outcome) = Len(videos)
    /\ recorded_idx = Ascending({i \in 1..Len(dl_outcome) : FoundOnDisk(i)})
    /\ Len(video_paths) = Len(recorded_idx)
    /\ \A j \in 1..Len(video_paths) :
         /\ video_paths[j] \in dir
         /\ PathOfItem(video_paths[j], videos[recorded_idx[j]])

\* C3 witness: three items, the download of the second fails, the paths of
\* the first and the third are returned
C3_Witness ==
  /\ dl_pc = "done"
  /\ Len(videos) = 3
  /\ dl_outcome[2].kind = "download_failed"
  /\ recorded_idx = <<1, 3>>
  /\ Len(video_paths) = 2

(***************************************************************************)
(* Properties of format_timestamp.                                         *)
(***************************************************************************)
IsDigit(c) == \E d \in 1..10 : DigitChars[d] = c
DigitValue(c) == (CHOOSE d \in 1..10 : DigitChars[d] = c) - 1

RECURSIVE DecimalValue(_)
DecimalValue(ds) ==
  IF ds = <<>> THEN 0
  ELSE 10 * DecimalValue(SubSeq(ds, 1, Len(ds) - 1)) + DigitValue(ds[Len(ds)])

\* C7: the stamp of a whole number of seconds s reads HH:MM:SS with MM and
\* SS two digits in 00..59, HH at least two digits and not wrapped, and
\* HH*3600 + MM*60 + SS = s; format(0), format(61), format(3661) and
\* format(360000) are the four strings of the spec.
C7_TimestampFormat ==
  stamp /= <<>> =>
    LET n == Len(stamp)
        hh == SubSeq(stamp, 1, n - 6)
        mm == SubSeq(stamp, n - 4, n - 3)
        ss == SubSeq(stamp, n - 1, n)
    IN /\ n >= 8
       /\ stamp[n - 5] = ":" /\ stamp[n - 2] = ":"
       /\ \A c \in Range(hh) \cup Range(mm) \cup Range(ss) : IsDigit(c)
       /\ DecimalValue(mm) <= 59 /\ DecimalValue(ss) <= 59
       /\ DecimalValue(hh) * 3600 + DecimalValue(mm) * 60 + DecimalValue(ss) = seconds
       /\ Len(hh) = 2 \/ hh[1] /= "0"
       /\ seconds = 0 => stamp = <<"0", "0", ":", "0", "0", ":", "0", "0">>
       /\ seconds = 61 => stamp = <<"0", "0", ":", "0", "1", ":", "0", "1">>
       /\ seconds = 3661 => stamp = <<"0", "1", ":", "0", "1", ":", "0", "1">>
       /\ seconds = 360000 => stamp = <<"1", "0", "0", ":", "0", "0", ":", "0", "0">>

\* C7 witness: an input of a hundred hours has been formatted
C7_Witness == seconds = 360000 /\ stamp /= <<>>
====
